---- MODULE Spec2Model ----
(***************************************************************************)
(* The signaling relay of server.js: the room directory (rooms and         *)
(* socketRoom), the socket.io transport rooms the handlers emit through,   *)
(* and the five socket handlers plus POST /create-room.                    *)
(*                                                                         *)
(* Identifiers (socket ids, room ids, payload blobs) are strings in the    *)
(* program.  Here every string is a pair <<family, index>>, so that a room *)
(* id can be the very same string as a socket id.  JavaScript values are   *)
(* records [type, v]: the handlers test truthiness and typeof, so both are *)
(* kept.                                                                   *)
(*                                                                         *)
(* Specifications: Spec is the whole server with MaxSockets connections,   *)
(* SpecWide the same with one connection more (a forwarded message         *)
(* overheard by a third party needs three), SpecDirectory the operations   *)
(* that write the directory, SpecIce GET /ice-servers under every setting  *)
(* of the TURN variables, SpecOrder the relay with the messages of its     *)
(* connections in flight, SpecClient the server with a page of room.js     *)
(* behind every connection, SpecPage one page sent whatever a server can   *)
(* send it, SpecAdvisory the server next to a second one that is sent the  *)
(* same messages and no POST /create-room.                                 *)
(***************************************************************************)
EXTENDS Naturals, FiniteSets, Sequences, TLC

MaxSockets == 2      \* connections the server accepts during a run
MaxGenerated == 1    \* room ids POST /create-room hands out during a run
MaxUrlLen == 2       \* characters in the value of TURN_URL
MaxEmitted == 2      \* offers, answers and candidates a client puts on the wire
MaxInbox == 3        \* length up to which an inbox takes room-users, user-joined, user-left
MaxIncoming == 3     \* messages sent to the page that is looked at alone

----------------------------------------------------------------------------
(* Strings *)

SockId(i) == <<"sock", i>>
GenId(i) == <<"gen", i>>
EmptyString == <<"", 0>>

SocketIds == {SockId(i) : i \in 1..MaxSockets}
\* the ids of a run that accepts one connection more; in a run that does not,
\* the last of them is an id no connection ever has
AnySocketIds == {SockId(i) : i \in 1..(MaxSockets + 1)}
GenIds == {GenId(i) : i \in 1..MaxGenerated}
\* a room-id string that is equal to the id of a connection
AliasIds == {SockId(1)}

(* JavaScript values *)

Str(s) == [type |-> "string", v |-> s]
Num(n) == [type |-> "number", v |-> <<"num", n>>]
Undefined == [type |-> "undefined", v |-> <<"undefined", 0>>]
Blob(i) == [type |-> "object", v |-> <<"blob", i>>]

\* what `!x` tests: undefined, "" and 0 are falsy, objects and other strings
\* and numbers are truthy
Truthy(x) ==
  CASE x.type = "undefined" -> FALSE
    [] x.type = "string" -> x.v # EmptyString
    [] x.type = "number" -> x.v[2] # 0
    [] OTHER -> TRUE

\* the payload of an emit that carried no argument: destructuring it throws
Absent == [shape |-> "absent"]

VARIABLES
  running,     \* the node process is alive (no uncaught exception so far)
  connected,   \* ids of the sockets whose connection handler ran and that are live
  closed,      \* ids of the sockets that disconnected (ids are never reused)
  issued,      \* room ids POST /create-room has returned
  rooms,       \* const rooms: roomId -> Set(socketId)
  socketRoom,  \* const socketRoom: socketId -> roomId
  adapter,     \* socket.io's rooms: socketId -> the transport rooms it is in
  last,        \* the handler that ran last: its event, socket, argument, the
               \* room id it joined or left, the messages it emitted and
               \* whether it threw
  processEnv,  \* process.env: TURN_URL, TURN_USERNAME, TURN_PASSWORD
  iceResponse, \* the body of the last response of GET /ice-servers
  wire,        \* per connection: what the client has emitted and the server
               \* has not handled yet, oldest first
  inbox,       \* per connection: what the server has sent it, oldest first
  emitted,     \* per connection: how many messages the client has emitted
  clients,     \* per connection: the page of room.js behind it
  bare         \* a second server, sent the same messages but never a
               \* POST /create-room: its process, maps, transport rooms and
               \* the messages its last handler emitted

vars == <<running, connected, closed, issued, rooms, socketRoom, adapter, last,
          processEnv, iceResponse, wire, inbox, emitted, clients, bare>>

\* the connections' two directions and the clients
network == <<wire, inbox, emitted, clients>>

\* what the socket handlers and POST /create-room neither read nor write
outside == <<processEnv, iceResponse, wire, inbox, emitted, clients, bare>>

----------------------------------------------------------------------------
(* Map helpers *)

MapGet(m, key) ==
  IF key.type = "string" /\ key.v \in DOMAIN m THEN Str(m[key.v]) ELSE Undefined

MapSet(m, k, val) == [x \in DOMAIN m \cup {k} |-> IF x = k THEN val ELSE m[x]]

MapDelete(m, k) == [x \in DOMAIN m \ {k} |-> m[x]]

EmptyMap == [x \in {} |-> {}]

----------------------------------------------------------------------------
(* Transport *)

\* the sockets in transport room `room`
InRoom(ad, room) == {s \in DOMAIN ad : room \in ad[s]}

\* socket.to(room).emit(...) of socket.io 4: a broadcast to the transport
\* room `room` that excepts the room named by the sender's id, so it reaches
\* every socket in `room` that is not in the sender's own room (the sender is
\* in it while connected; so is whoever called socket.join(<sender's id>))
BroadcastTo(ad, sender, room) == InRoom(ad, room) \ (InRoom(ad, sender) \cup {sender})

Msg(to, ev, data) == [to |-> to, ev |-> ev, data |-> data]

Ran(ev, sock, arg, room, out, threw) ==
  [ev |-> ev, sock |-> sock, arg |-> arg, room |-> room, out |-> out, threw |-> threw]

----------------------------------------------------------------------------
----------------------------------------------------------------------------
(* GET /ice-servers *)

\* the value of TURN_URL is text that the handler splits and trims, so it is
\* kept as its characters: a letter, a blank and the comma
UrlChars == {"t", " ", ","}

SeqsUpTo(S, n) == UNION {[1..k -> S] : k \in 0..n}

CharStr(chars) ==
  IF chars = <<>> THEN Str(EmptyString) ELSE [type |-> "string", v |-> <<"chars", chars>>]

Chars(x) == IF x.v = EmptyString THEN <<>> ELSE x.v[2]

\* String.prototype.split(',')
RECURSIVE Split(_)
Split(chars) ==
  IF \A i \in DOMAIN chars : chars[i] # ","
    THEN <<chars>>
  ELSE LET i == CHOOSE k \in DOMAIN chars :
                  chars[k] = "," /\ \A j \in 1..(k - 1) : chars[j] # ","
       IN <<SubSeq(chars, 1, i - 1)>> \o Split(SubSeq(chars, i + 1, Len(chars)))

RECURSIVE TrimStart(_)
TrimStart(chars) ==
  IF chars # <<>> /\ Head(chars) = " " THEN TrimStart(Tail(chars)) ELSE chars

RECURSIVE TrimEnd(_)
TrimEnd(chars) ==
  IF chars # <<>> /\ chars[Len(chars)] = " "
    THEN TrimEnd(SubSeq(chars, 1, Len(chars) - 1))
  ELSE chars

\* String.prototype.trim()
Trim(chars) == TrimEnd(TrimStart(chars))

Env(url, user, pass) == [TURN_URL |-> url, TURN_USERNAME |-> user, TURN_PASSWORD |-> pass]

\* a variable of the environment is unset, set to the empty text or set
Envs ==
  {Env(url, user, pass) :
     url \in {Undefined} \cup {CharStr(c) : c \in SeqsUpTo(UrlChars, MaxUrlLen)},
     user \in {Undefined, Str(EmptyString), Str(<<"user", 1>>)},
     pass \in {Undefined, Str(EmptyString), Str(<<"pass", 1>>)}}

\* { urls: 'stun:stun.l.google.com:19302' }, { urls: 'stun:stun1.l.google.com:19302' }
Stun(i) == [urls |-> Str(<<"stun", i>>)]

\* a test of the URL alone
TurnConfigured_UrlOnly(e) == Truthy(e.TURN_URL)

\* if (turnUrl && turnUser && turnPass)
TurnConfigured(e) ==
  Truthy(e.TURN_URL) /\ Truthy(e.TURN_USERNAME) /\ Truthy(e.TURN_PASSWORD)

\* turnUrl.split(',').map(s => s.trim())
TurnUrls(url) ==
  LET parts == Split(Chars(url))
  IN [i \in DOMAIN parts |-> CharStr(Trim(parts[i]))]

\* the list the handler builds: the TURN descriptor, if any, then the two
\* STUN descriptors
IceServers(e) ==
  (IF TurnConfigured(e)
     THEN <<[urls |-> TurnUrls(e.TURN_URL),
             username |-> e.TURN_USERNAME,
             credential |-> e.TURN_PASSWORD]>>
   ELSE <<>>)
  \o <<Stun(0), Stun(1)>>

NoResponse == [status |-> 0]

\* room.js before its socket has connected: how many of the messages sent to
\* it the page has handled, const peers, the calls of createOfferTo and of
\* the offer handler that are waiting on an await, the targets of the
\* offers emitted, const candidateBuffer, and per peer connection the
\* candidates given to its addIceCandidate
NewClient ==
  [seen |-> 0, peers |-> {}, tasks |-> {}, offers |-> <<>>,
   candidateBuffer |-> EmptyMap, applied |-> EmptyMap]

\* the second server as it starts listening
NewBare ==
  [running |-> TRUE, rooms |-> EmptyMap, socketRoom |-> EmptyMap, adapter |-> EmptyMap,
   out |-> {}]

----------------------------------------------------------------------------
\* the maps are empty and the server listens
Listening ==
  /\ running = TRUE
  /\ connected = {}
  /\ closed = {}
  /\ issued = {}
  /\ rooms = EmptyMap
  /\ socketRoom = EmptyMap
  /\ adapter = EmptyMap
  /\ last = Ran("listen", EmptyString, Absent, Undefined, {}, FALSE)
  /\ iceResponse = NoResponse
  /\ wire = [s \in AnySocketIds |-> <<>>]
  /\ inbox = [s \in AnySocketIds |-> <<>>]
  /\ emitted = [s \in AnySocketIds |-> 0]
  /\ clients = [s \in AnySocketIds |-> NewClient]
  /\ bare = NewBare

\* a deployment without TURN variables
Init ==
  /\ Listening
  /\ processEnv = Env(Undefined, Undefined, Undefined)

\* io.on('connection'): the socket is live and in the transport room named
\* by its own id.  Ids are assigned by the server: the k-th connection of a
\* run gets SockId(k).
Connection(s) ==
  /\ running
  /\ s = SockId(Cardinality(connected \cup closed) + 1)
  /\ connected' = connected \cup {s}
  /\ adapter' = MapSet(adapter, s, {s})
  /\ last' = Ran("connection", s, Absent, Undefined, {}, FALSE)
  /\ UNCHANGED <<running, closed, issued, rooms, socketRoom>>

\* a create-room that registers the room with a member in it
CreateRoom_Occupied(roomId) ==
  /\ running
  /\ roomId \notin issued
  /\ issued' = issued \cup {roomId}
  /\ rooms' = MapSet(rooms, roomId, {SockId(1)})
  /\ last' = Ran("create-room", EmptyString, Absent, Str(roomId), {}, FALSE)
  /\ UNCHANGED <<running, connected, closed, socketRoom, adapter>>

\* POST /create-room: a fresh random id, pre-registered with an empty set
CreateRoom(roomId) ==
  /\ running
  /\ roomId \notin issued
  /\ issued' = issued \cup {roomId}
  /\ rooms' = MapSet(rooms, roomId, {})
  /\ last' = Ran("create-room", EmptyString, Absent, Str(roomId), {}, FALSE)
  /\ UNCHANGED <<running, connected, closed, socketRoom, adapter>>

----------------------------------------------------------------------------
(* What a client can send *)

\* room-id strings a client sends: an id create-room returned (it cannot be
\* guessed before), or the id of a connection that exists
KnownRoomIds == issued \cup (AliasIds \cap (connected \cup closed))

JoinPayloads ==
  {[shape |-> "object", roomId |-> v] :
     v \in {Str(r) : r \in GenIds \cup AliasIds} \cup {Str(EmptyString), Num(7), Undefined}}
  \cup {Absent}

\* a client names only a room id it knows
CanSend(arg) ==
  (arg # Absent /\ arg.roomId.type = "string" /\ arg.roomId.v # EmptyString)
    => arg.roomId.v \in KnownRoomIds

\* a target is the id of a socket (live, closed or not yet connected); a
\* malformed one is missing, empty or not a string
Targets == {Str(s) : s \in AnySocketIds}
BadTargets == {Undefined, Str(EmptyString), Num(7)}

\* sdp / candidate: opaque objects; a malformed one is missing
Blobs == {Blob(1), Blob(2)}
BadBlobs == {Undefined}

ForwardPayloads ==
  {[shape |-> "object", target |-> t, data |-> d] : t \in Targets, d \in Blobs}
  \cup {[shape |-> "object", target |-> t, data |-> Blob(1)] : t \in BadTargets}
  \cup {[shape |-> "object", target |-> Str(SockId(1)), data |-> d] : d \in BadBlobs}
  \cup {Absent}

ForwardEvents == {"offer", "answer", "ice-candidate"}

----------------------------------------------------------------------------
(* Handlers *)

\* an exception thrown inside a socket.io listener is not caught by anyone:
\* the process ends, and no handler runs afterwards
Throw(ev, s, arg) ==
  /\ running' = FALSE
  /\ last' = Ran(ev, s, arg, Undefined, {}, TRUE)
  /\ UNCHANGED <<connected, closed, issued, rooms, socketRoom, adapter>>

\* the guard without its typeof test
ValidRoomId_TruthyOnly(roomId) == Truthy(roomId)

\* if (!roomId || typeof roomId !== 'string') return;
ValidRoomId(roomId) == Truthy(roomId) /\ roomId.type = "string"

\* the list sent without taking the joiner out of it
Others_WithSelf(roomSet, s) == roomSet

\* const others = [...roomSet].filter(id => id !== socket.id);
Others(roomSet, s) == roomSet \ {s}

\* function getRoomSet(roomId)
getRoomSet(roomId) == IF roomId \in DOMAIN rooms THEN rooms ELSE MapSet(rooms, roomId, {})

\* socket.on('join-room', ({ roomId }) => ...)
JoinRoom(s, arg) ==
  /\ running
  /\ s \in connected
  /\ CanSend(arg)
  /\ IF arg = Absent
       THEN Throw("join-room", s, arg)
     ELSE IF ~ValidRoomId(arg.roomId)
       THEN /\ last' = Ran("join-room", s, arg, Undefined, {}, FALSE)
            /\ UNCHANGED <<running, connected, closed, issued, rooms, socketRoom, adapter>>
     ELSE LET roomId == arg.roomId.v
              ensured == getRoomSet(roomId)
              roomSet == ensured[roomId] \cup {s}
              joined == MapSet(adapter, s, adapter[s] \cup {roomId})
              others == Others(roomSet, s)
          IN /\ rooms' = MapSet(ensured, roomId, roomSet)
             /\ socketRoom' = MapSet(socketRoom, s, roomId)
             /\ adapter' = joined
             /\ last' = Ran("join-room", s, arg, Str(roomId),
                            {Msg(s, "room-users", others)}
                            \cup {Msg(m, "user-joined", s) : m \in BroadcastTo(joined, s, roomId)},
                            FALSE)
             /\ UNCHANGED <<running, connected, closed, issued>>

\* if (!target || !sdp) return;
FieldsPresent(arg) == Truthy(arg.target) /\ Truthy(arg.data)

\* const fromRoom = socketRoom.get(socket.id); const toRoom = socketRoom.get(target);
\* if (!fromRoom || fromRoom !== toRoom) return;
SameRoom(s, target) ==
  LET fromRoom == MapGet(socketRoom, Str(s))
      toRoom == MapGet(socketRoom, target)
  IN Truthy(fromRoom) /\ fromRoom = toRoom

\* an envelope whose sender field is taken from the client's payload
Envelope_FromPayload(s, arg) == [from |-> arg.target.v, data |-> arg.data]

\* { from: socket.id, sdp } and { from: socket.id, candidate }
Envelope(s, arg) == [from |-> s, data |-> arg.data]

\* a handler that takes the sender out of the reverse map
Forward_Unmaps(ev, s, arg) ==
  /\ running
  /\ s \in connected
  /\ arg # Absent
  /\ last' = Ran(ev, s, arg, Undefined, {}, FALSE)
  /\ socketRoom' = MapDelete(socketRoom, s)
  /\ UNCHANGED <<running, connected, closed, issued, rooms, adapter>>

\* socket.on('offer' | 'answer' | 'ice-candidate', ({ target, sdp|candidate }) => ...)
Forward(ev, s, arg) ==
  /\ running
  /\ s \in connected
  /\ IF arg = Absent
       THEN Throw(ev, s, arg)
     ELSE /\ last' = Ran(ev, s, arg, Undefined,
                         IF FieldsPresent(arg) /\ SameRoom(s, arg.target)
                           THEN {Msg(m, ev, Envelope(s, arg)) :
                                   m \in BroadcastTo(adapter, s, arg.target.v)}
                           ELSE {},
                         FALSE)
          /\ UNCHANGED <<running, connected, closed, issued, rooms, socketRoom, adapter>>

\* a room that is never found empty
IsEmpty_Never(roomSet) == FALSE

\* a room that is always found empty
IsEmpty_Always(roomSet) == TRUE

\* if (roomSet.size === 0) rooms.delete(rid);
IsEmpty(roomSet) == Cardinality(roomSet) = 0

\* a handler that announces the departure to everyone before it looks the
\* connection up
Disconnect_AnnouncedToAll(s) ==
  /\ running
  /\ s \in connected
  /\ connected' = connected \ {s}
  /\ closed' = closed \cup {s}
  /\ adapter' = MapDelete(adapter, s)
  /\ LET rid == MapGet(socketRoom, Str(s))
         roomSet == IF Truthy(rid) /\ rid.v \in DOMAIN rooms THEN rooms[rid.v] \ {s} ELSE {}
     IN /\ socketRoom' = MapDelete(socketRoom, s)
        /\ rooms' = IF ~Truthy(rid) \/ rid.v \notin DOMAIN rooms THEN rooms
                    ELSE IF roomSet = {} THEN MapDelete(rooms, rid.v)
                    ELSE MapSet(rooms, rid.v, roomSet)
        /\ last' = Ran("disconnect", s, Absent, rid,
                       {Msg(m, "user-left", s) : m \in DOMAIN adapter'}, FALSE)
  /\ UNCHANGED <<running, issued>>

\* socket.on('disconnect', ...): socket.io has taken the socket out of all its
\* transport rooms before the listener runs
Disconnect(s) ==
  /\ running
  /\ s \in connected
  /\ connected' = connected \ {s}
  /\ closed' = closed \cup {s}
  /\ adapter' = MapDelete(adapter, s)
  /\ LET rid == MapGet(socketRoom, Str(s))
     IN IF ~Truthy(rid)
          THEN /\ last' = Ran("disconnect", s, Absent, rid, {}, FALSE)
               /\ UNCHANGED <<rooms, socketRoom>>
        ELSE /\ socketRoom' = MapDelete(socketRoom, s)
             /\ IF rid.v \in DOMAIN rooms
                  THEN LET roomSet == rooms[rid.v] \ {s}
                       IN /\ rooms' = IF IsEmpty(roomSet)
                                        THEN MapDelete(rooms, rid.v)
                                        ELSE MapSet(rooms, rid.v, roomSet)
                          /\ last' = Ran("disconnect", s, Absent, rid,
                                         {Msg(m, "user-left", s) :
                                            m \in BroadcastTo(adapter', s, rid.v)},
                                         FALSE)
                ELSE /\ rooms' = rooms
                     /\ last' = Ran("disconnect", s, Absent, rid, {}, FALSE)
  /\ UNCHANGED <<running, issued>>

\* app.get('/ice-servers', ...)
GetIceServers ==
  /\ running
  /\ iceResponse' = [status |-> 200, iceServers |-> IceServers(processEnv)]
  /\ UNCHANGED <<running, connected, closed, issued, rooms, socketRoom, adapter, last, bare,
                 processEnv>>
  /\ UNCHANGED network

\* the whole server, accepting MaxSockets connections
Next ==
  \/ \E s \in SocketIds : Connection(s) /\ UNCHANGED outside
  \/ \E g \in GenIds : CreateRoom(g) /\ UNCHANGED outside
  \/ \E s \in AnySocketIds, arg \in JoinPayloads : JoinRoom(s, arg) /\ UNCHANGED outside
  \/ \E ev \in ForwardEvents, s \in AnySocketIds, arg \in ForwardPayloads : Forward(ev, s, arg) /\ UNCHANGED outside
  \/ \E s \in AnySocketIds : Disconnect(s) /\ UNCHANGED outside

Spec == Init /\ [][Next]_vars

\* the whole server, accepting one connection more
NextWide ==
  \/ \E s \in AnySocketIds : Connection(s) /\ UNCHANGED outside
  \/ \E g \in GenIds : CreateRoom(g) /\ UNCHANGED outside
  \/ \E s \in AnySocketIds, arg \in JoinPayloads : JoinRoom(s, arg) /\ UNCHANGED outside
  \/ \E ev \in ForwardEvents, s \in AnySocketIds, arg \in ForwardPayloads : Forward(ev, s, arg) /\ UNCHANGED outside
  \/ \E s \in AnySocketIds : Disconnect(s) /\ UNCHANGED outside

SpecWide == Init /\ [][NextWide]_vars

\* the operations that touch the directory: the offer, answer and
\* ice-candidate handlers write none of rooms, socketRoom and the transport
\* rooms, so the directory goes through the same states without them
NextDirectory ==
  \/ \E s \in SocketIds : Connection(s) /\ UNCHANGED outside
  \/ \E g \in GenIds : CreateRoom(g) /\ UNCHANGED outside
  \/ \E s \in AnySocketIds, arg \in JoinPayloads : JoinRoom(s, arg) /\ UNCHANGED outside
  \/ \E s \in AnySocketIds : Disconnect(s) /\ UNCHANGED outside

SpecDirectory == Init /\ [][NextDirectory]_vars

----------------------------------------------------------------------------
(* The same handlers run by the second server, on its own maps.  It is     *)
(* sent every connection and every message the first one is sent, and no   *)
(* POST /create-room.                                                      *)

\* io.on('connection')
BareConnection(b, s) ==
  [b EXCEPT !.adapter = MapSet(@, s, {s}), !.out = {}]

\* socket.on('join-room', ({ roomId }) => ...)
BareJoinRoom(b, s, arg) ==
  IF arg = Absent
    THEN [b EXCEPT !.running = FALSE, !.out = {}]
  ELSE IF ~ValidRoomId(arg.roomId)
    THEN [b EXCEPT !.out = {}]
  ELSE LET roomId == arg.roomId.v
           ensured == IF roomId \in DOMAIN b.rooms THEN b.rooms
                      ELSE MapSet(b.rooms, roomId, {})
           roomSet == ensured[roomId] \cup {s}
           joined == MapSet(b.adapter, s, b.adapter[s] \cup {roomId})
       IN [b EXCEPT !.rooms = MapSet(ensured, roomId, roomSet),
                    !.socketRoom = MapSet(@, s, roomId),
                    !.adapter = joined,
                    !.out = {Msg(s, "room-users", Others(roomSet, s))}
                            \cup {Msg(m, "user-joined", s) :
                                    m \in BroadcastTo(joined, s, roomId)}]

\* socket.on('offer' | 'answer' | 'ice-candidate', ...)
BareForward(b, ev, s, arg) ==
  IF arg = Absent
    THEN [b EXCEPT !.running = FALSE, !.out = {}]
  ELSE LET fromRoom == MapGet(b.socketRoom, Str(s))
           toRoom == MapGet(b.socketRoom, arg.target)
       IN [b EXCEPT !.out = IF /\ FieldsPresent(arg)
                               /\ Truthy(fromRoom)
                               /\ fromRoom = toRoom
                              THEN {Msg(m, ev, Envelope(s, arg)) :
                                      m \in BroadcastTo(b.adapter, s, arg.target.v)}
                            ELSE {}]

\* socket.on('disconnect', ...)
BareDisconnect(b, s) ==
  LET rid == MapGet(b.socketRoom, Str(s))
      left == MapDelete(b.adapter, s)
  IN IF ~Truthy(rid)
       THEN [b EXCEPT !.adapter = left, !.out = {}]
     ELSE IF rid.v \in DOMAIN b.rooms
       THEN LET roomSet == b.rooms[rid.v] \ {s}
            IN [b EXCEPT !.adapter = left,
                         !.socketRoom = MapDelete(@, s),
                         !.rooms = IF IsEmpty(roomSet) THEN MapDelete(@, rid.v)
                                   ELSE MapSet(@, rid.v, roomSet),
                         !.out = {Msg(m, "user-left", s) :
                                    m \in BroadcastTo(left, s, rid.v)}]
     ELSE [b EXCEPT !.adapter = left, !.socketRoom = MapDelete(@, s), !.out = {}]

\* what the two servers are not
apart == <<processEnv, iceResponse, wire, inbox, emitted, clients>>

NextAdvisory ==
  \/ \E s \in SocketIds :
       Connection(s) /\ bare' = BareConnection(bare, s) /\ UNCHANGED apart
  \/ \E g \in GenIds :
       CreateRoom(g) /\ UNCHANGED bare /\ UNCHANGED apart
  \/ \E s \in AnySocketIds, arg \in JoinPayloads :
       JoinRoom(s, arg) /\ bare' = BareJoinRoom(bare, s, arg) /\ UNCHANGED apart
  \/ \E ev \in ForwardEvents, s \in AnySocketIds, arg \in ForwardPayloads :
       Forward(ev, s, arg) /\ bare' = BareForward(bare, ev, s, arg) /\ UNCHANGED apart
  \/ \E s \in AnySocketIds :
       Disconnect(s) /\ bare' = BareDisconnect(bare, s) /\ UNCHANGED apart

SpecAdvisory == Init /\ [][NextAdvisory]_vars

----------------------------------------------------------------------------
(* Messages in flight.  A connection carries the client's messages to the  *)
(* server in the order the client emitted them, and the server's messages  *)
(* to the client in the order the handlers emitted them; a handler runs to *)
(* its end before the next message is taken.                               *)

\* the newest message first
Arrived_Newest(q) == Len(q)

\* the place in the queue of the message the server handles next: the oldest
Arrived(q) == 1

Without(q, i) == SubSeq(q, 1, i - 1) \o SubSeq(q, i + 1, Len(q))

\* the messages of one handler run, put at the end of their receivers'
\* inboxes (no handler sends one receiver two messages)
Deliver(box, out) ==
  [m \in DOMAIN box |->
     IF \E x \in out : x.to = m
       THEN Append(box[m], CHOOSE x \in out : x.to = m)
     ELSE box[m]]

Fits(box) == \A m \in DOMAIN box : Len(box[m]) <= MaxInbox

\* socket.emit('offer' | 'answer' | 'ice-candidate', { target, ... }) of a
\* client: the k-th message of a connection carries payload k
Emit(s, ev, target) ==
  /\ running
  /\ s \in connected
  /\ emitted[s] < MaxEmitted
  /\ emitted' = [emitted EXCEPT ![s] = @ + 1]
  /\ wire' = [wire EXCEPT ![s] =
                Append(@, [ev |-> ev,
                           arg |-> [shape |-> "object", target |-> Str(target),
                                    data |-> Blob(emitted[s] + 1)]])]
  /\ UNCHANGED <<running, connected, closed, issued, rooms, socketRoom, adapter, last, bare,
                 processEnv, iceResponse, inbox, clients>>

\* the server takes a connection's next message and runs its handler
Relay(s) ==
  /\ wire[s] # <<>>
  /\ LET msg == wire[s][Arrived(wire[s])]
     IN IF msg.ev = "join-room" THEN JoinRoom(s, msg.arg) ELSE Forward(msg.ev, s, msg.arg)
  /\ wire' = [wire EXCEPT ![s] = Without(@, Arrived(@))]
  /\ inbox' = Deliver(inbox, last'.out)
  /\ UNCHANGED <<bare, processEnv, iceResponse, emitted, clients>>

\* join-room of a client that has nothing on the wire, and what it is sent
JoinDelivered(s, arg) ==
  /\ wire[s] = <<>>
  /\ JoinRoom(s, arg)
  /\ inbox' = Deliver(inbox, last'.out)
  /\ Fits(inbox')
  /\ UNCHANGED <<bare, processEnv, iceResponse, wire, emitted, clients>>

\* a disconnect: what the client had on the wire is lost
Departure(s) ==
  /\ Disconnect(s)
  /\ wire' = [wire EXCEPT ![s] = <<>>]
  /\ inbox' = Deliver(inbox, last'.out)
  /\ UNCHANGED <<bare, processEnv, iceResponse, emitted, clients>>

DisconnectDelivered(s) == Departure(s) /\ Fits(inbox')

\* the relay with its connections' queues
NextOrder ==
  \/ \E s \in SocketIds : Connection(s) /\ UNCHANGED outside
  \/ \E g \in GenIds : CreateRoom(g) /\ UNCHANGED outside
  \/ \E s \in AnySocketIds, arg \in JoinPayloads : JoinDelivered(s, arg)
  \/ \E s \in AnySocketIds, ev \in ForwardEvents : \E t \in SocketIds \ {s} : Emit(s, ev, t)
  \/ \E s \in AnySocketIds : Relay(s)
  \/ \E s \in AnySocketIds : DisconnectDelivered(s)

SpecOrder == Init /\ [][NextOrder]_vars

----------------------------------------------------------------------------
(* The client, room.js.  Its handlers up to their first await are one step *)
(* (ClientHandle); what follows the awaits of createOfferTo and of the     *)
(* offer handler is a later step (ClientProceed).                          *)

\* a call that is waiting: createOfferTo(peer) before its socket.emit('offer'),
\* or the offer handler before its socket.emit('answer'); n tells calls apart
Task(kind, peer, n) == [kind |-> kind, peer |-> peer, n |-> n]

\* candidateBuffer.get(peerId), or no candidates
Buffered(c, peerId) ==
  IF peerId \in DOMAIN c.candidateBuffer THEN c.candidateBuffer[peerId] ELSE <<>>

\* a peer connection made without a look at the buffer
createPeerConnection_NoDrain(c, peerId) ==
  IF peerId \in c.peers THEN c
  ELSE [c EXCEPT !.peers = @ \cup {peerId}, !.applied = MapSet(@, peerId, <<>>)]

\* function createPeerConnection(peerId): the connection peers has for the
\* peer, or else a new one: peers.set(peerId, pc), every buffered candidate
\* given to it in the order of the list, candidateBuffer.delete(peerId)
createPeerConnection(c, peerId) ==
  IF peerId \in c.peers THEN c
  ELSE [c EXCEPT !.peers = @ \cup {peerId},
                 !.applied = MapSet(@, peerId, Buffered(c, peerId)),
                 !.candidateBuffer = MapDelete(@, peerId)]

\* function removePeer(peerId): pc.close(), peers.delete(peerId),
\* candidateBuffer.delete(peerId)
removePeer(c, peerId) ==
  [c EXCEPT !.peers = @ \ {peerId},
            !.applied = MapDelete(@, peerId),
            !.candidateBuffer = MapDelete(@, peerId)]

\* async function createOfferTo(peerId), up to await pc.createOffer()
createOfferTo(c, peerId, n) ==
  [createPeerConnection(c, peerId) EXCEPT !.tasks = @ \cup {Task("offer", peerId, n)}]

RECURSIVE ForEach(_, _, _)
\* users.forEach((peerId) => { createOfferTo(peerId); })
ForEach(c, users, n) ==
  IF users = {} THEN c
  ELSE LET peerId == CHOOSE u \in users : TRUE
       IN ForEach(createOfferTo(c, peerId, n), users \ {peerId}, n)

\* socket.on('room-users', (users) => ...)
OnRoomUsers(c, users, n) == ForEach(c, users, n)

\* a handler that offers to the connection that joined
OnUserJoined_Offers(c, peerId, n) == createOfferTo(c, peerId, n)

\* socket.on('user-joined', (peerId) => { createPeerConnection(peerId); })
OnUserJoined(c, peerId, n) == createPeerConnection(c, peerId)

\* socket.on('user-left', (peerId) => { removePeer(peerId); })
OnUserLeft(c, peerId) == removePeer(c, peerId)

\* socket.on('offer', async ({ from, sdp }) => ...), up to its first await
OnOffer(c, from, n) ==
  [createPeerConnection(c, from) EXCEPT !.tasks = @ \cup {Task("answer", from, n)}]

\* socket.on('answer', ...) emits nothing and leaves peers as it is
OnAnswer(c, from) == c

\* socket.on('ice-candidate', ({ from, candidate }) => ...)
OnIceCandidate(c, from, candidate) ==
  IF from \in c.peers
    THEN [c EXCEPT !.applied[from] = Append(@, candidate)]
  ELSE [c EXCEPT !.candidateBuffer = MapSet(@, from, Append(Buffered(c, from), candidate))]

\* the page handles the n-th message it was sent
Handled(c, m, n) ==
  CASE m.ev = "room-users" -> OnRoomUsers(c, m.data, n)
    [] m.ev = "user-joined" -> OnUserJoined(c, m.data, n)
    [] m.ev = "user-left" -> OnUserLeft(c, m.data)
    [] m.ev = "offer" -> OnOffer(c, m.data.from, n)
    [] m.ev = "answer" -> OnAnswer(c, m.data.from)
    [] OTHER -> OnIceCandidate(c, m.data.from, m.data.data)

\* socket.on('connect', ...): after the ICE servers and the media,
\* socket.emit('join-room', { roomId }), once per connection; roomId is the
\* last segment of the page's path
ClientJoin(s, roomId) ==
  /\ running
  /\ s \in connected
  /\ emitted[s] = 0
  /\ roomId \in KnownRoomIds
  /\ emitted' = [emitted EXCEPT ![s] = 1]
  /\ wire' = [wire EXCEPT ![s] =
                Append(@, [ev |-> "join-room",
                           arg |-> [shape |-> "object", roomId |-> Str(roomId)]])]
  /\ UNCHANGED <<running, connected, closed, issued, rooms, socketRoom, adapter, last, bare,
                 processEnv, iceResponse, inbox, clients>>

ClientHandle(s) ==
  /\ s \in connected
  /\ clients[s].seen < Len(inbox[s])
  /\ LET n == clients[s].seen + 1
     IN clients' = [clients EXCEPT ![s] = [Handled(@, inbox[s][n], n) EXCEPT !.seen = n]]
  /\ UNCHANGED <<running, connected, closed, issued, rooms, socketRoom, adapter, last, bare,
                 processEnv, iceResponse, wire, inbox, emitted>>

\* the awaits of a waiting call are over: socket.emit('offer', { target: peerId,
\* sdp }) or socket.emit('answer', { target: from, sdp })
ClientProceed(s, t) ==
  /\ s \in connected
  /\ t \in clients[s].tasks
  /\ emitted' = [emitted EXCEPT ![s] = @ + 1]
  /\ wire' = [wire EXCEPT ![s] =
                Append(@, [ev |-> t.kind,
                           arg |-> [shape |-> "object", target |-> Str(t.peer),
                                    data |-> Blob(emitted[s] + 1)]])]
  /\ clients' = [clients EXCEPT ![s].tasks = @ \ {t},
                                ![s].offers = IF t.kind = "offer" THEN Append(@, t.peer) ELSE @]
  /\ UNCHANGED <<running, connected, closed, issued, rooms, socketRoom, adapter, last, bare,
                 processEnv, iceResponse, inbox>>

\* the server and, behind every connection, a page of room.js
NextClient ==
  \/ \E s \in SocketIds : Connection(s) /\ UNCHANGED outside
  \/ \E g \in GenIds : CreateRoom(g) /\ UNCHANGED outside
  \/ \E s \in AnySocketIds, r \in GenIds \cup AliasIds : ClientJoin(s, r)
  \/ \E s \in AnySocketIds : Relay(s)
  \/ \E s \in AnySocketIds : ClientHandle(s)
  \/ \E s \in AnySocketIds : \E t \in clients[s].tasks : ClientProceed(s, t)
  \/ \E s \in AnySocketIds : Departure(s)

SpecClient == Init /\ [][NextClient]_vars

\* one page alone, sent whatever the server can send a client, in any order
PagePeers(s) == SocketIds \ {s}

\* the k-th message the page is sent; an offer, answer or candidate carries
\* payload k
PageMessages(s, k) ==
  {Msg(s, "room-users", users) : users \in SUBSET PagePeers(s)}
  \cup {Msg(s, ev, peer) : ev \in {"user-joined", "user-left"}, peer \in PagePeers(s)}
  \cup {Msg(s, ev, Envelope(peer, [data |-> Blob(k)])) :
          ev \in ForwardEvents, peer \in PagePeers(s)}

Incoming(s, m) ==
  /\ s \in connected
  /\ Len(inbox[s]) < MaxIncoming
  /\ m \in PageMessages(s, Len(inbox[s]) + 1)
  /\ inbox' = [inbox EXCEPT ![s] = Append(@, m)]
  /\ UNCHANGED <<running, connected, closed, issued, rooms, socketRoom, adapter, last, bare,
                 processEnv, iceResponse, wire, emitted, clients>>

\* pc.oniceconnectionstatechange and pc.onconnectionstatechange with a
\* failed, disconnected or closed state: removePeer(peerId)
PeerFailed(s, peerId) ==
  /\ s \in connected
  /\ peerId \in clients[s].peers
  /\ clients' = [clients EXCEPT ![s] = removePeer(@, peerId)]
  /\ UNCHANGED <<running, connected, closed, issued, rooms, socketRoom, adapter, last, bare,
                 processEnv, iceResponse, wire, inbox, emitted>>

NextPage ==
  \/ \E s \in {SockId(1)} : Connection(s) /\ UNCHANGED outside
  \/ \E s \in {SockId(1)}, ev \in {"room-users", "user-joined", "user-left"} \cup ForwardEvents :
       \E m \in {x \in PageMessages(s, Len(inbox[s]) + 1) : x.ev = ev} : Incoming(s, m)
  \/ \E s \in {SockId(1)} : ClientHandle(s)
  \/ \E s \in {SockId(1)}, peerId \in AnySocketIds : PeerFailed(s, peerId)

SpecPage == Init /\ [][NextPage]_vars

\* GET /ice-servers under every setting of the three variables
InitIce ==
  /\ Listening
  /\ processEnv \in Envs

NextIce == GetIceServers

SpecIce == InitIce /\ [][NextIce]_vars

----------------------------------------------------------------------------
(* Vocabulary of the properties *)

IsNonEmptyString(x) == x.type = "string" /\ x.v # EmptyString

\* the reverse map maps both connections to the same room identifier
MappedToSameRoom(a, b) ==
  /\ a \in DOMAIN socketRoom
  /\ b \in DOMAIN socketRoom
  /\ socketRoom[a] = socketRoom[b]

\* the connections to which the last handler sent a message of kind ev
Receivers(ev) == {m.to : m \in {x \in last.out : x.ev = ev}}

RoomsOf(s) == {r \in DOMAIN rooms : s \in rooms[r]}

\* the client message the handler got: a required field missing, empty or of
\* the wrong type, or no payload object at all
Malformed(l) ==
  /\ l.ev \in {"join-room"} \cup ForwardEvents
  /\ \/ l.arg = Absent
     \/ l.ev = "join-room" /\ ~IsNonEmptyString(l.arg.roomId)
     \/ l.ev \in ForwardEvents
        /\ (~IsNonEmptyString(l.arg.target) \/ l.arg.data.type = "undefined")

----------------------------------------------------------------------------
(* C1: for every room r of the rooms map and every connection m, m is in   *)
(* r's member set if and only if socketRoom maps m to r.                   *)
C1_DirectoryAgrees ==
  \A r \in DOMAIN rooms, m \in AnySocketIds :
    m \in rooms[r] <=> (m \in DOMAIN socketRoom /\ socketRoom[m] = r)

(* C2: an offer, answer or ice-candidate with both fields present, sent by *)
(* connection A to another connection B, reaches B if and only if A and B  *)
(* are mapped to the same room when the handler runs; the handler does not *)
(* throw.                                                                  *)
C2_ForwardedIffSameRoom ==
  (last.ev \in ForwardEvents /\ last.arg # Absent /\ FieldsPresent(last.arg))
    => /\ ~last.threw
       /\ \A b \in AnySocketIds \ {last.sock} :
            last.arg.target = Str(b)
              => (b \in Receivers(last.ev) <=> MappedToSameRoom(last.sock, b))

(* C3: a forwarded offer, answer or ice-candidate addressed to target T is *)
(* received by no connection other than T.                                 *)
C3_ForwardedToTargetOnly ==
  last.ev \in ForwardEvents
    => \A m \in last.out : last.arg.target = Str(m.to)

(* C4: a user-joined or user-left about connection C is received only by   *)
(* connections the directory records in C's room: members of that room's   *)
(* set that the reverse map maps to that room.                             *)
C4_NotificationsStayInRoom ==
  last.ev \in {"join-room", "disconnect"}
    => \A m \in Receivers("user-joined") \cup Receivers("user-left") :
         /\ m \in DOMAIN socketRoom
         /\ Str(socketRoom[m]) = last.room
         /\ last.room.v \in DOMAIN rooms
         /\ m \in rooms[last.room.v]

(* C5: no room with an empty member set is present in the rooms map.       *)
C5_NoEmptyRoom == \A r \in DOMAIN rooms : rooms[r] # {}

(* C6: a join-room from a connection that is already in a room changes     *)
(* neither map and sends nothing, and a connection that is mapped to a     *)
(* room stays mapped to that room until it disconnects.                    *)
C6_JoinWhileInRoomDropped ==
  [][/\ (last'.ev = "join-room" /\ last'.sock \in DOMAIN socketRoom)
          => (rooms' = rooms /\ socketRoom' = socketRoom /\ last'.out = {})
     /\ \A s \in DOMAIN socketRoom :
          s \in connected' => (s \in DOMAIN socketRoom' /\ socketRoom'[s] = socketRoom[s])
    ]_vars

(* C7: each connection identifier is in the member set of at most one room *)
C7_AtMostOneRoom == \A s \in AnySocketIds : Cardinality(RoomsOf(s)) <= 1

(* C8: a connection that has disconnected is in no room's member set and   *)
(* has no entry in the reverse map, from then on.                          *)
C8_NoStaleMembership ==
  \A s \in closed : s \notin DOMAIN socketRoom /\ RoomsOf(s) = {}

(* C9: a malformed join-room, offer, answer or ice-candidate is dropped:   *)
(* the handler does not throw, the server keeps running, the sender stays  *)
(* connected, the directory is unchanged and nothing is sent.              *)
C9_MalformedDropped ==
  [][Malformed(last')
       => /\ ~last'.threw
          /\ running'
          /\ last'.sock \in connected'
          /\ rooms' = rooms
          /\ socketRoom' = socketRoom
          /\ last'.out = {}
    ]_vars

(* C10: a join-room whose payload carries a roomId that is not a non-empty *)
(* string (missing, empty or not a string) returns with nothing changed:   *)
(* both maps are as before, no room is created, and neither room-users nor *)
(* user-joined is sent.                                                    *)
C10_InvalidJoinChangesNothing ==
  [][(last'.ev = "join-room" /\ last'.arg # Absent /\ ~IsNonEmptyString(last'.arg.roomId))
       => /\ rooms' = rooms
          /\ socketRoom' = socketRoom
          /\ adapter' = adapter
          /\ last'.out = {}
          /\ ~last'.threw
    ]_vars

\* a roomId of the wrong type was sent by a connection while the directory
\* held a room with a member
C10_Witness ==
  /\ last.ev = "join-room"
  /\ last.arg # Absent
  /\ last.arg.roomId = Num(7)
  /\ \E r \in DOMAIN rooms : rooms[r] # {}
  /\ last.sock \notin DOMAIN socketRoom
(* C11: after a join-room that was accepted from connection J for room R,  *)
(* J has been sent one room-users whose list is the member set of R        *)
(* without J, and every other member of R has been sent a user-joined that *)
(* carries J's id.                                                         *)
C11_JoinAnnounced ==
  (last.ev = "join-room" /\ last.room # Undefined)
    => LET J == last.sock
           members == rooms[last.room.v] \ {J}
       IN /\ {m \in last.out : m.ev = "room-users"} = {Msg(J, "room-users", members)}
          /\ \A m \in members : Msg(m, "user-joined", J) \in last.out
(* C12: a join-room for a room identifier that has no entry in the rooms   *)
(* map creates the entry with the joiner as its only member, and the       *)
(* joiner is sent room-users with an empty list.                           *)
C12_JoinCreatesRoom ==
  [][(last'.ev = "join-room" /\ last'.room # Undefined /\ last'.room.v \notin DOMAIN rooms)
       => /\ DOMAIN rooms' = DOMAIN rooms \cup {last'.room.v}
          /\ rooms'[last'.room.v] = {last'.sock}
          /\ {m \in last'.out : m.ev = "room-users"} = {Msg(last'.sock, "room-users", {})}
    ]_vars

\* the second connection has joined a room identifier that create-room never
\* issued and that nobody else is in, while the first is in a room of its own
C12_Witness ==
  /\ last.ev = "join-room"
  /\ last.sock = SockId(2)
  /\ last.room \in {Str(a) : a \in AliasIds}
  /\ last.room.v \notin issued
  /\ rooms[last.room.v] = {SockId(2)}
  /\ Msg(SockId(2), "room-users", {}) \in last.out
  /\ \E g \in issued : g \in DOMAIN rooms /\ rooms[g] = {SockId(1)}
(* C13: when a connection that is the only member of its room disconnects, *)
(* the room's entry is removed from the rooms map, so that a later         *)
(* join-room to the identifier finds what it finds for an identifier that  *)
(* never existed: a member list that is empty.                             *)
C13_LastMemberRemovesRoom ==
  [][(/\ last'.ev = "disconnect"
      /\ last'.room # Undefined
      /\ last'.room.v \in DOMAIN rooms
      /\ rooms[last'.room.v] = {last'.sock})
       => last'.room.v \notin DOMAIN rooms'
    ]_vars

\* the only member of an issued room has disconnected and the room is gone,
\* while another room is still there
C13_Witness ==
  /\ last.ev = "disconnect"
  /\ last.room \in {Str(g) : g \in issued}
  /\ last.room.v \notin DOMAIN rooms
  /\ last.sock \in closed
  /\ \E r \in DOMAIN rooms : rooms[r] # {}
(* C14: when connection C disconnects, then for every room whose member    *)
(* set contained C, every connection that remains a member of that room is *)
(* sent a user-left that carries C's id, and C itself is sent none.        *)
C14_LeaveAnnounced ==
  [][last'.ev = "disconnect"
       => /\ \A r \in DOMAIN rooms :
               last'.sock \in rooms[r]
                 => \A m \in rooms[r] \ {last'.sock} :
                      Msg(m, "user-left", last'.sock) \in last'.out
          /\ \A m \in last'.out : m.to # last'.sock
    ]_vars
(* C15: the disconnect of a connection that never joined a room leaves     *)
(* rooms and socketRoom unchanged and sends no user-left, nor any other    *)
(* message, to any connection.                                             *)
C15_DisconnectOutsideRooms ==
  [][(last'.ev = "disconnect" /\ last'.sock \notin DOMAIN socketRoom)
       => /\ rooms' = rooms
          /\ socketRoom' = socketRoom
          /\ last'.out = {}
    ]_vars

\* a connection without a room has disconnected while another connection
\* was in a room
C15_Witness ==
  /\ last.ev = "disconnect"
  /\ last.room = Undefined
  /\ last.out = {}
  /\ \E m \in connected : m \in DOMAIN socketRoom /\ m \in rooms[socketRoom[m]]
(* C16: once every connection that ever joined a room has disconnected,    *)
(* rooms and socketRoom are both empty, whatever the interleaving of       *)
(* create-room, join-room and disconnect was.                              *)
C16_DirectoryDrains ==
  (\A s \in connected : s \notin DOMAIN socketRoom /\ adapter[s] = {s})
    => (rooms = EmptyMap /\ socketRoom = EmptyMap)
(* C17: every forwarded message has the kind of the message it forwards    *)
(* (offer, answer or ice-candidate), carries as 'from' the id of the       *)
(* connection that sent it, and carries the sdp or candidate payload       *)
(* exactly as the sender supplied it.                                      *)
C17_ForwardedUnaltered ==
  last.ev \in ForwardEvents
    => \A m \in last.out :
         /\ m.ev = last.ev
         /\ m.data.from = last.sock
         /\ m.data.data = last.arg.data

\* an ice-candidate with the second payload has been forwarded to another
\* connection
C17_Witness ==
  /\ last.ev = "ice-candidate"
  /\ last.arg # Absent
  /\ last.arg.data = Blob(2)
  /\ \E m \in last.out : m.to # last.sock /\ last.arg.target = Str(m.to)
\* the descriptors of a response
Descriptors(resp) == {resp.iceServers[i] : i \in DOMAIN resp.iceServers}

IsTurnDescriptor(d) == "username" \in DOMAIN d

(* C19: the response of GET /ice-servers always contains the two STUN      *)
(* descriptors, and it contains a TURN descriptor if and only if TURN_URL, *)
(* TURN_USERNAME and TURN_PASSWORD are all set to a non-empty value.       *)
C19_TurnIffConfigured ==
  iceResponse # NoResponse
    => /\ {Stun(0), Stun(1)} \subseteq Descriptors(iceResponse)
       /\ (\E d \in Descriptors(iceResponse) : IsTurnDescriptor(d))
            <=> /\ IsNonEmptyString(processEnv.TURN_URL)
                /\ IsNonEmptyString(processEnv.TURN_USERNAME)
                /\ IsNonEmptyString(processEnv.TURN_PASSWORD)

\* a response with a TURN descriptor of two URLs, from a TURN_URL with a comma
C19_Witness ==
  /\ iceResponse # NoResponse
  /\ Len(iceResponse.iceServers) = 3
  /\ IsTurnDescriptor(iceResponse.iceServers[1])
  /\ Len(iceResponse.iceServers[1].urls) = 2
  /\ iceResponse.iceServers[1].credential = processEnv.TURN_PASSWORD
\* the payload number of a forwarded message
Stamp(m) == m.data.data.v[2]

(* C18: if a connection A emits two messages to the same target B and both *)
(* are forwarded, B is sent them in the order A emitted them.              *)
C18_ForwardedInOrder ==
  \A b \in AnySocketIds :
    \A i, j \in DOMAIN inbox[b] :
      (/\ i < j
       /\ inbox[b][i].ev \in ForwardEvents
       /\ inbox[b][j].ev \in ForwardEvents
       /\ inbox[b][i].data.from = inbox[b][j].data.from)
        => Stamp(inbox[b][i]) < Stamp(inbox[b][j])

\* a connection has been sent two forwarded messages of one sender while a
\* message of its own was on the wire
C18_Witness ==
  \E b \in AnySocketIds :
    /\ wire[b] # <<>>
    /\ \E i, j \in DOMAIN inbox[b] :
         /\ i < j
         /\ inbox[b][i].ev \in ForwardEvents
         /\ inbox[b][j].ev \in ForwardEvents
         /\ inbox[b][i].data.from = inbox[b][j].data.from
\* the offers connection a has emitted to b
OffersTo(a, b) == {i \in DOMAIN clients[a].offers : clients[a].offers[i] = b}

\* the connections listed in a room-users that the page of a has handled
Listed(a) ==
  UNION {inbox[a][i].data : i \in {k \in 1..clients[a].seen : inbox[a][k].ev = "room-users"}}

\* the page of a has handled all it was sent and no call of it is waiting
Settled(a) == clients[a].seen = Len(inbox[a]) /\ clients[a].tasks = {}

AppliedTo(c, p) == IF p \in DOMAIN c.applied THEN c.applied[p] ELSE <<>>

\* the candidates of p the page holds: applied, then buffered
Held(c, p) == AppliedTo(c, p) \o Buffered(c, p)

ReverseMapSound ==
  \A c \in DOMAIN socketRoom :
    /\ socketRoom[c] \in DOMAIN rooms
    /\ c \in rooms[socketRoom[c]]

(* C22: in every reachable state every entry of the reverse map is sound:  *)
(* if socketRoom maps connection c to room r, then r is in the rooms map   *)
(* and c is in r's member set; so the disconnect handler never finds the   *)
(* mapped room missing and never skips the user-left broadcast for the     *)
(* room it looked up.                                                      *)
C22_ReverseMapSound ==
  /\ []ReverseMapSound
  /\ [][\A c \in connected \ connected' :
          c \in DOMAIN socketRoom =>
            /\ socketRoom[c] \in DOMAIN rooms
            /\ last'.out = {Msg(m, "user-left", c) :
                              m \in BroadcastTo(adapter', c, socketRoom[c])}
       ]_vars

\* a connection mapped to a room left it, the room was found and another
\* member, still mapped to it, was told
C22_Witness ==
  /\ last.ev = "disconnect"
  /\ Truthy(last.room)
  /\ last.room.v \in DOMAIN rooms
  /\ \E m \in DOMAIN socketRoom :
       /\ Str(socketRoom[m]) = last.room
       /\ Msg(m, "user-left", last.sock) \in last.out
\* E was a member of a room when a join-room of J for it was accepted: the
\* room-users sent to J lists the members found
ListedFor(J, E) ==
  \E k \in DOMAIN inbox[J] : inbox[J][k].ev = "room-users" /\ E \in inbox[J][k].data

(* C23: a member E of a room that a connection J joins is sent user-joined *)
(* for J before it is sent any offer, answer or ice-candidate from J.      *)
C23_JoinedBeforeSignalling ==
  \A E \in AnySocketIds : \A J \in AnySocketIds \ {E} :
    ListedFor(J, E)
      => \A j \in DOMAIN inbox[E] :
           (inbox[E][j].ev \in ForwardEvents /\ inbox[E][j].data.from = J)
             => \E i \in 1..(j - 1) : inbox[E][i] = Msg(E, "user-joined", J)
(* C24: the offer, answer and ice-candidate handlers never change the      *)
(* directory: whether the message is forwarded, rejected because sender    *)
(* and target are not mapped to the same room, or dropped as malformed,    *)
(* the rooms map and the reverse map are the same before and after.        *)
C24_ForwardKeepsDirectory ==
  [][last'.ev \in ForwardEvents => (rooms' = rooms /\ socketRoom' = socketRoom)]_vars

\* an offer between two connections mapped to different rooms has been
\* rejected
C24_Witness ==
  /\ last.ev = "offer"
  /\ last.arg # Absent
  /\ FieldsPresent(last.arg)
  /\ last.out = {}
  /\ last.sock \in DOMAIN socketRoom
  /\ \E t \in DOMAIN socketRoom :
       /\ last.arg.target = Str(t)
       /\ socketRoom[t] # socketRoom[last.sock]
(* C25: calling create-room is not observable by the connections: for      *)
(* every sequence of join-room, offer, answer, ice-candidate and           *)
(* disconnect events, every connection is sent the same messages by the    *)
(* server that was sent create-room for room ids of the sequence and by    *)
(* the server that was not, and create-room itself sends them nothing.     *)
C25_CreateRoomNotObservable ==
  /\ bare.running = running
  /\ last.ev = "create-room" => last.out = {}
  /\ last.ev # "create-room" => bare.out = last.out

\* a connection has joined a room that create-room had registered, a member
\* of the room was told, and the server that registered nothing sent the
\* same
C25_Witness ==
  /\ last.ev = "join-room"
  /\ last.room # Undefined
  /\ last.room.v \in issued
  /\ \E m \in last.out : m.ev = "user-joined"
  /\ \E m \in last.out : m.ev = "room-users" /\ m.data # {}
  /\ bare.out = last.out
====
